---- MODULE Spec2Model ----
(***************************************************************************)
(* Model of examples/class_activation_maps.py: the class-activation-map    *)
(* demonstration script.  Spec is one run of the script (argument parsing, *)
(* backend selection with the construction of the CAM model, image         *)
(* loading, prediction, postprocessing, display).  SpecPost applies the    *)
(* function postprocess to bounded inputs.                                 *)
(*                                                                         *)
(* Python indices are 0-based and are kept 0-based here: arrays are        *)
(* functions over 0..n-1; Python tuples and lists are TLA+ sequences read  *)
(* through Idx.                                                            *)
(***************************************************************************)
EXTENDS Integers, Sequences, FiniteSets, TLC

VARIABLES pc, argv, args, env, cam_builder, built, imgs, original_img,
          original_size, preds, cams, class_activation_map, shown, error,
          trace, top_k, argsort_out, idxes, k_used, rets, inputs

vars == <<pc, argv, args, env, cam_builder, built, imgs, original_img,
          original_size, preds, cams, class_activation_map, shown, error,
          trace, top_k, argsort_out, idxes, k_used, rets, inputs>>

(* ------------------------------ bounds -------------------------------- *)

\* Number of classes of the model.  The program's N_CLASSES is 1000 (line 19).
N_CLASSES == 3

\* Channels of the last convolutional layer (2048, 1536, 4032 in the networks).
N_FEATURES == 2

\* Largest height and width of an input image file.
MaxDim == 2

\* Largest value of a probability score handed to postprocess.
MaxVal == 1

\* Number of pretrained weight sets the model draws from.
NCheckpoints == 2

(* ----------------------------- constants ------------------------------ *)

\* UpSampling2D(size=(32, 32)).
UPSAMPLE == 32

\* img.shape[2] of an image read by cv2.imread: three colour channels.
CHANNELS == 3

None == [none |-> TRUE]

Classes == 0 .. (N_CLASSES - 1)

Features == 0 .. (N_FEATURES - 1)

\* The positions of a map whose content the model follows: (row, column).
Pixels == {<<0, 0>>, <<0, 1>>}

\* t[i] of a Python tuple or list.
Idx(t, i) == t[i + 1]

Min(a, b) == IF a < b THEN a ELSE b

Max(a, b) == IF a > b THEN a ELSE b

RECURSIVE SumOver(_, _)
\* The sum of f[x] over the finite set S.
SumOver(S, f) ==
    IF S = {} THEN 0
    ELSE LET x == CHOOSE y \in S : TRUE
         IN  f[x] + SumOver(S \ {x}, f)

(* --------------------------- numpy arrays ----------------------------- *)

RECURSIVE Prod(_)
\* The number of elements of an array of the given shape.
Prod(shape) == IF shape = <<>> THEN 1 ELSE Head(shape) * Prod(Tail(shape))

RECURSIVE Offset(_, _)
\* The position in the flat, row-major (C order) buffer of index idx.
Offset(shape, idx) ==
    IF shape = <<>> THEN 0
    ELSE Head(idx) * Prod(Tail(shape)) + Offset(Tail(shape), Tail(idx))

\* a[idx] of an array a = [shape, flat].
At(a, idx) == a.flat[Offset(a.shape, idx)]

\* The array of the given shape whose entry at (j, c) is f[j][c].
Array2(rows, cols, f) ==
    [shape |-> <<rows, cols>>,
     flat  |-> [o \in 0 .. (rows * cols - 1) |-> f[o \div cols][o % cols]]]

\* The array of the given length whose entry at c is f[c].
Array1(n, f) == [shape |-> <<n>>, flat |-> [o \in 0 .. (n - 1) |-> f[o]]]

\* ndarray.reshape(d0, d1, d2, d3) where one dimension may be -1: the buffer
\* is kept, the shape changes, the -1 is inferred from the size.
reshape(a, newshape) ==
    LET known == Prod(SelectSeq(newshape, LAMBDA d : d # -1))
        inferred == Prod(a.shape) \div known
    IN  [shape |-> [i \in 1 .. Len(newshape) |->
                       IF newshape[i] = -1 THEN inferred ELSE newshape[i]],
         flat  |-> a.flat]

\* np.argsort(v): the indices of v in ascending order of value.  The default
\* sort is not stable, so the order of equal values is any order.
argsort(v) ==
    {s \in [1 .. N_CLASSES -> Classes] :
        /\ \A i, j \in 1 .. N_CLASSES : i # j => s[i] # s[j]
        /\ \A i \in 1 .. (N_CLASSES - 1) : v[s[i]] <= v[s[i + 1]]}

\* s[start:] of a Python sequence.
PySliceFrom(s, start) ==
    LET n == Len(s)
        b == IF start < 0 THEN Max(n + start, 0) ELSE Min(start, n)
    IN  SubSeq(s, b + 1, n)

\* cv2.resize(src, dsize): dsize is (width, height); the result has
\* height rows and width columns and src's channels, and holds src's
\* content interpolated.
cv2_resize(src, dsize) ==
    [shape |-> <<Idx(dsize, 1), Idx(dsize, 0)>> \o SubSeq(src.shape, 3, Len(src.shape)),
     data  |-> <<"cv2.resize", src.data>>]

(* ------------------- the pretrained keras networks -------------------- *)

ModelClasses == {"ResNet50", "NASNetLarge", "InceptionResNetV2"}

\* The pretrained weights of a prediction layer: kernel (features x classes)
\* and bias.  The entries of a kernel are pairwise distinct, so that an entry
\* read at the wrong index is seen.
Checkpoints ==
    {[kernel |-> Array2(N_FEATURES, N_CLASSES,
                        [j \in Features |-> [c \in Classes |-> k + j * N_CLASSES + c]]),
      bias   |-> Array1(N_CLASSES, [c \in Classes |-> k * (c + 1)])] :
        k \in 1 .. NCheckpoints}

\* The values of an entry of a feature map (the activations are not negative).
FeatVals == {0, 1}

\* The last convolutional feature maps a network answers an image with,
\* at the followed positions.
FeatureMaps == [Pixels -> [Features -> FeatVals]]

\* Output size of a convolution or pooling of window k and stride s without
\* padding ("valid"), and with padding ("same").
ConvValid(n, k, s) == (n - k) \div s + 1

ConvSame(n, s) == (n + s - 1) \div s

\* Height and width of the last convolutional feature map of each network
\* for an input of size n x n.
LastConvSide(model_class, n) ==
    CASE model_class = "ResNet50" ->
            ConvSame(ConvSame(ConvSame(ConvSame(ConvSame(n, 2), 2), 2), 2), 2)
      [] model_class = "InceptionResNetV2" ->
            LET stem1 == ConvValid(ConvValid(ConvValid(n, 3, 2), 3, 1), 3, 2)
                stem2 == ConvValid(ConvValid(stem1, 3, 1), 3, 2)
            IN  ConvValid(ConvValid(stem2, 3, 2), 3, 2)
      [] model_class = "NASNetLarge" ->
            ConvSame(ConvSame(ConvSame(ConvSame(ConvValid(n, 3, 2), 2), 2), 2), 2)

\* The names keras gives the last convolutional activation and the
\* prediction layer of each network.
LastConvName(model_class) ==
    CASE model_class = "ResNet50" -> "activation_49"
      [] model_class = "InceptionResNetV2" -> "conv_7b_ac"
      [] model_class = "NASNetLarge" -> "activation_260"

PredName(model_class) ==
    CASE model_class = "ResNet50" -> "fc1000"
      [] model_class = "InceptionResNetV2" -> "predictions"
      [] model_class = "NASNetLarge" -> "predictions"

\* model_class(input_shape=...): the pretrained network.  A model is its
\* layers by name (kind, inbound layer, weights, output shape without the
\* batch dimension) and the list of its output layers.
PretrainedModel(model_class, input_shape, ckpt) ==
    LET side == LastConvSide(model_class, Idx(input_shape, 0))
    IN  [class       |-> model_class,
         input_shape |-> input_shape,
         layers      |->
             (LastConvName(model_class) :>
                 [kind |-> "Backbone", inbound |-> "input", weights |-> <<>>,
                  output_shape |-> <<side, side, N_FEATURES>>])
             @@ (PredName(model_class) :>
                 [kind |-> "PoolDense", inbound |-> LastConvName(model_class),
                  weights |-> <<ckpt.kernel, ckpt.bias>>,
                  output_shape |-> <<N_CLASSES>>]),
         outputs     |-> <<PredName(model_class)>>]

\* layer.get_weights()
get_weights(model, name) == model.layers[name].weights

\* layer.set_weights(weights)
set_weights(model, name, weights) ==
    [model EXCEPT !.layers[name].weights = weights]

\* UpSampling2D(size=(fy, fx), interpolation="bilinear")(inbound): a layer
\* without weights whose output is fy times as high and fx times as wide.
UpSampling2D(model, name, size, inbound) ==
    LET in == model.layers[inbound].output_shape
    IN  [model EXCEPT !.layers = (name :>
            [kind |-> "UpSampling2D", inbound |-> inbound, weights |-> <<>>,
             output_shape |-> <<Idx(in, 0) * Idx(size, 0),
                                Idx(in, 1) * Idx(size, 1), Idx(in, 2)>>]) @@ @]

\* Conv2D(filters, kernel_size=(1, 1), name=name)(inbound): a new layer
\* whose kernel has shape (1, 1, channels, filters); its initial weights
\* are those of the initialiser.
Conv2D(model, name, filters, inbound) ==
    LET in == model.layers[inbound].output_shape
        ch == Idx(in, 2)
    IN  [model EXCEPT !.layers = (name :>
            [kind |-> "Conv2D", inbound |-> inbound,
             weights |-> <<[shape |-> <<1, 1, ch, filters>>,
                            flat  |-> [o \in 0 .. (ch * filters - 1) |-> 0]],
                           Array1(filters, [c \in 0 .. (filters - 1) |-> 0])>>,
             output_shape |-> <<Idx(in, 0), Idx(in, 1), filters>>]) @@ @]

RECURSIVE Forward(_, _, _)
\* The value of layer `name` of `model` when the backbone answers the batch
\* with the feature map feat: a tensor [shape, px], px the content at the
\* followed positions.  The prediction layer averages the feature map over
\* its positions and applies kernel and bias; the scores stand for the
\* probabilities (softmax keeps their order).
Forward(model, name, feat) ==
    LET layer == model.layers[name]
    IN  CASE layer.kind = "Backbone" ->
                [shape |-> <<1>> \o layer.output_shape, px |-> feat]
          [] layer.kind = "UpSampling2D" ->
                [shape |-> <<1>> \o layer.output_shape,
                 px    |-> Forward(model, layer.inbound, feat).px]
          [] layer.kind = "Conv2D" ->
                LET x == Forward(model, layer.inbound, feat)
                    K == layer.weights[1]
                    b == layer.weights[2]
                    outs == 0 .. (Idx(K.shape, 3) - 1)
                    ins == 0 .. (Idx(K.shape, 2) - 1)
                IN  [shape |-> <<1>> \o layer.output_shape,
                     px    |-> [p \in Pixels |-> [c \in outs |->
                         At(b, <<c>>) + SumOver(ins,
                             [j \in ins |-> At(K, <<0, 0, j, c>>) * x.px[p][j]])]]]
          [] layer.kind = "PoolDense" ->
                LET x == Forward(model, layer.inbound, feat)
                    W == layer.weights[1]
                    b == layer.weights[2]
                    outs == 0 .. (Idx(W.shape, 1) - 1)
                    ins == 0 .. (Idx(W.shape, 0) - 1)
                    pool == [j \in ins |-> SumOver(Pixels, [p \in Pixels |-> x.px[p][j]])]
                IN  [shape |-> <<1>> \o layer.output_shape,
                     v     |-> [c \in outs |->
                         At(b, <<c>>) + SumOver(ins,
                             [j \in ins |-> At(W, <<j, c>>) * pool[j]])]]

\* Model.predict(batch): the values of the model's outputs, in order.
ModelPredict(model, feat) ==
    [i \in 1 .. Len(model.outputs) |-> Forward(model, model.outputs[i], feat)]

(* ----------------------------- _Backend ------------------------------- *)

\* Lines 60-61: the kernel of the prediction layer reshaped to the kernel of
\* a 1x1 convolution, and its bias.
FinalParams_classes_first(final_params) ==
    <<reshape(final_params[1], <<1, 1, N_CLASSES, -1>>), final_params[2]>>

FinalParams(final_params) ==
    <<reshape(final_params[1], <<1, 1, -1, N_CLASSES>>), final_params[2]>>

\* Line 71: the reshaped weights are set on the new layer.
GraftWeights_onto_pred_layer(cam_model, pred_layer, final_params) ==
    set_weights(cam_model, pred_layer, final_params)

GraftWeights(cam_model, pred_layer, final_params) ==
    set_weights(cam_model, "predictions_2", final_params)

_create_cam_model(input_size, model_class, last_conv_layer, pred_layer, ckpt) ==
    LET model == PretrainedModel(model_class,
                                 <<input_size, input_size, CHANNELS>>, ckpt)
        final_params == FinalParams(get_weights(model, pred_layer))
        up == UpSampling2D(model, "up_sampling2d_1", <<UPSAMPLE, UPSAMPLE>>,
                           last_conv_layer)
        x == Conv2D(up, "predictions_2", N_CLASSES, "up_sampling2d_1")
        cam_model == [x EXCEPT !.outputs = model.outputs \o <<"predictions_2">>]
    IN  GraftWeights(cam_model, pred_layer, final_params)

\* _Backend.__init__
_Backend(input_size, last_conv_layer, pred_layer, preprocess_fn, model_class, ckpt) ==
    [input_size    |-> input_size,
     preprocess_fn |-> preprocess_fn,
     cam_model     |-> _create_cam_model(input_size, model_class,
                                         last_conv_layer, pred_layer, ckpt)]

BackendInceptionResNetV2(ckpt) ==
    _Backend(299, "conv_7b_ac", "predictions", "inception_resnet_preprocess",
             "InceptionResNetV2", ckpt)

BackendResNet50(ckpt) ==
    _Backend(224, "activation_49", "fc1000", "resnet_preprocess", "ResNet50", ckpt)

BackendNASNetLarge(ckpt) ==
    _Backend(331, "activation_260", "predictions", "nasnet_preprocess",
             "NASNetLarge", ckpt)

\* _Backend.load_img on a readable image file: (imgs, original_img,
\* original_size).  cv2.imread gives the channels in the order BGR and
\* [:, :, ::-1] reverses them.
load_img_size_as_shape(self, file) ==
    LET original_img_ == [shape |-> file.shape, data |-> <<"RGB">>]
        original_size_ == <<Idx(original_img_.shape, 0), Idx(original_img_.shape, 1)>>
        img == cv2_resize(original_img_, <<self.input_size, self.input_size>>)
        imgs_ == [shape |-> <<1>> \o img.shape,
                 data  |-> <<self.preprocess_fn, img.data>>]
    IN  <<imgs_, original_img_, original_size_>>

load_img(self, file) ==
    LET original_img_ == [shape |-> file.shape, data |-> <<"RGB">>]
        original_size_ == <<Idx(original_img_.shape, 1), Idx(original_img_.shape, 0)>>
        img == cv2_resize(original_img_, <<self.input_size, self.input_size>>)
        imgs_ == [shape |-> <<1>> \o img.shape,
                 data  |-> <<self.preprocess_fn, img.data>>]
    IN  <<imgs_, original_img_, original_size_>>

\* _Backend.predict: (preds, cams).
predict(self, feat) ==
    LET out == ModelPredict(self.cam_model, feat)
    IN  <<out[1], out[2]>>

(* ---------------------------- postprocess ----------------------------- *)

\* Arrays live in buffers; a map is read and written through a reference,
\* either to a buffer of its own or to a channel of cams (a view).
ZeroMap == [p \in Pixels |-> 0]

\* cams[0, :, :, i]: a view of channel i.
ChannelView(i) == [buf |-> "cams", ch |-> i]

ReadRef(heap, ref) ==
    IF ref.buf = "cams" THEN [p \in Pixels |-> heap.cams.px[p][ref.ch]]
    ELSE heap.map

\* ref += m, in place.
IAdd(heap, ref, m) ==
    IF ref.buf = "cams"
    THEN [heap EXCEPT !.cams.px =
             [p \in Pixels |-> [@[p] EXCEPT ![ref.ch] = @ + m[p]]]]
    ELSE [heap EXCEPT !.map = [p \in Pixels |-> @[p] + m[p]]]

\* np.zeros_like(view): a new buffer of the view's shape, filled with zeros.
zeros_like_is_view(heap, view) == [heap |-> heap, ref |-> view]

zeros_like(heap, view) ==
    [heap |-> [heap EXCEPT !.map = ZeroMap], ref |-> [buf |-> "map"]]

\* Line 109: the indices of the last top_k entries of the argsort.
TopIdxes_first(order, k) == SubSeq(order, 1, Min(Max(k, 0), Len(order)))

TopIdxes(order, k) == PySliceFrom(order, 0 - k)

RECURSIVE Accumulate(_, _, _)
\* Lines 111-112.
Accumulate(heap, ref, is) ==
    IF is = <<>> THEN heap
    ELSE Accumulate(IAdd(heap, ref, ReadRef(heap, ChannelView(Head(is)))),
                    ref, Tail(is))

\* postprocess(preds, cams, top_k), order being np.argsort(preds[0]): the
\* value returned, the arguments as the call leaves them, and the local
\* idxes.
postprocess(p, c, k, order) ==
    LET is == TopIdxes(order, k)
        z == zeros_like([preds |-> p, cams |-> c, map |-> ZeroMap], ChannelView(0))
        heap == Accumulate(z.heap, z.ref, is)
    IN  [ret   |-> [shape |-> SubSeq(c.shape, 2, 3), px |-> ReadRef(heap, z.ref)],
         preds |-> heap.preds,
         cams  |-> heap.cams,
         idxes |-> is]

\* top_k=1 in the signature of postprocess.
DEFAULT_TOP_K == 1

(* ----------------------------- the script ----------------------------- *)

\* default="resnet50" of the argument base_network.
DEFAULT_BASE_NETWORK == "resnet50"

BaseNames == {"resnet", "nasnet", "inception", DEFAULT_BASE_NETWORK, "vgg16"}

\* The command lines: the image alone, or the image and a base network.
Argvs == {<<"dog.png">>} \cup {<<"dog.png", b>> : b \in BaseNames}

\* What cv2.imread finds at the path: an image of some height and width,
\* or nothing it can read (it then returns None).
ImageFiles ==
    {[shape |-> <<h, w, CHANNELS>>, data |-> <<"BGR">>] :
        h \in 1 .. MaxDim, w \in 1 .. MaxDim}

\* parser.parse_args(): both arguments are positional and declared without
\* nargs, so both are required and the declared default is never applied;
\* a command line without them ends the program (SystemExit).
parse_args(av) ==
    IF Len(av) = 2
    THEN [input_image_file |-> av[1], base_network |-> av[2]]
    ELSE None

\* Lines 119-127: the backend built for args.base_network, None standing
\* for the raise of ValueError.
CreateCamBuilder_default_resnet(base_network, ckpt) ==
    IF base_network = "nasnet" THEN BackendNASNetLarge(ckpt)
    ELSE IF base_network = "inception" THEN BackendInceptionResNetV2(ckpt)
    ELSE BackendResNet50(ckpt)

CreateCamBuilder(base_network, ckpt) ==
    IF base_network = "resnet" THEN BackendResNet50(ckpt)
    ELSE IF base_network = "nasnet" THEN BackendNASNetLarge(ckpt)
    ELSE IF base_network = "inception" THEN BackendInceptionResNetV2(ckpt)
    ELSE None

postVars == <<top_k, argsort_out, inputs>>

Init ==
    /\ pc = "parse"
    /\ argv \in Argvs
    /\ env \in [file : ImageFiles \cup {None}, ckpt : Checkpoints, feat : FeatureMaps]
    /\ args = None
    /\ cam_builder = None
    /\ built = <<>>
    /\ imgs = None
    /\ original_img = None
    /\ original_size = <<>>
    /\ preds = None
    /\ cams = None
    /\ class_activation_map = None
    /\ shown = <<>>
    /\ error = ""
    /\ trace = <<>>
    /\ top_k = 0
    /\ argsort_out = <<>>
    /\ idxes = <<>>
    /\ k_used = 0
    /\ rets = <<>>
    /\ inputs = None

\* Line 30.
ParseArgs ==
    /\ pc = "parse"
    /\ trace' = Append(trace, "parse")
    /\ LET a == parse_args(argv)
       IN  IF a = None
           THEN /\ error' = "SystemExit"
                /\ pc' = "exit"
                /\ args' = args
           ELSE /\ args' = a
                /\ pc' = "select"
                /\ error' = error
    /\ UNCHANGED <<argv, env, cam_builder, built, imgs, original_img,
                   original_size, preds, cams, class_activation_map, shown,
                   idxes, k_used, rets>>
    /\ UNCHANGED postVars

\* Lines 119-127.
SelectBackend ==
    /\ pc = "select"
    /\ trace' = Append(trace, "select")
    /\ LET b == CreateCamBuilder(args.base_network, env.ckpt)
       IN  IF b = None
           THEN /\ error' = "ValueError"
                /\ pc' = "exit"
                /\ UNCHANGED <<cam_builder, built>>
           ELSE /\ cam_builder' = b
                /\ built' = Append(built, b.cam_model.class)
                /\ pc' = "load"
                /\ error' = error
    /\ UNCHANGED <<argv, args, env, imgs, original_img, original_size, preds,
                   cams, class_activation_map, shown, idxes, k_used, rets>>
    /\ UNCHANGED postVars

\* Lines 130-131.  Subscripting the None of an unreadable file raises
\* TypeError.
LoadImage ==
    /\ pc = "load"
    /\ trace' = Append(trace, "load")
    /\ IF env.file = None
       THEN /\ error' = "TypeError"
            /\ pc' = "exit"
            /\ UNCHANGED <<imgs, original_img, original_size>>
       ELSE LET r == load_img(cam_builder, env.file)
            IN  /\ imgs' = r[1]
                /\ original_img' = r[2]
                /\ original_size' = r[3]
                /\ pc' = "predict"
                /\ error' = error
    /\ UNCHANGED <<argv, args, env, cam_builder, built, preds, cams,
                   class_activation_map, shown, idxes, k_used, rets>>
    /\ UNCHANGED postVars

\* Line 134.
Predict_again ==
    /\ pc = "predict"
    /\ trace' = Append(trace, "predict")
    /\ LET r == predict(cam_builder, env.feat)
       IN  /\ preds' = r[1]
           /\ cams' = r[2]
    /\ pc' = IF Len(trace) < 4 THEN "predict" ELSE "postprocess"
    /\ UNCHANGED <<argv, args, env, cam_builder, built, imgs, original_img,
                   original_size, class_activation_map, shown, error, idxes,
                   k_used, rets>>
    /\ UNCHANGED postVars

Predict ==
    /\ pc = "predict"
    /\ trace' = Append(trace, "predict")
    /\ LET r == predict(cam_builder, env.feat)
       IN  /\ preds' = r[1]
           /\ cams' = r[2]
    /\ pc' = "postprocess"
    /\ UNCHANGED <<argv, args, env, cam_builder, built, imgs, original_img,
                   original_size, class_activation_map, shown, error, idxes,
                   k_used, rets>>
    /\ UNCHANGED postVars

\* Line 137: postprocess(preds, cams), top_k taking its default.
Postprocess ==
    /\ pc = "postprocess"
    /\ trace' = Append(trace, "postprocess")
    /\ \E order \in argsort(preds.v) :
          LET r == postprocess(preds, cams, DEFAULT_TOP_K, order)
          IN  /\ class_activation_map' = r.ret
              /\ preds' = r.preds
              /\ cams' = r.cams
              /\ idxes' = r.idxes
              /\ rets' = Append(rets, r.ret)
    /\ k_used' = DEFAULT_TOP_K
    /\ pc' = "display"
    /\ UNCHANGED <<argv, args, env, cam_builder, built, imgs, original_img,
                   original_size, shown, error>>
    /\ UNCHANGED postVars

\* Lines 140-143: the image, then the map resized to original_size over it.
Display ==
    /\ pc = "display"
    /\ trace' = Append(trace, "display")
    /\ shown' = <<original_img,
                  cv2_resize([shape |-> class_activation_map.shape,
                              data  |-> class_activation_map.px],
                             original_size)>>
    /\ pc' = "done"
    /\ UNCHANGED <<argv, args, env, cam_builder, built, imgs, original_img,
                   original_size, preds, cams, class_activation_map, error,
                   idxes, k_used, rets>>
    /\ UNCHANGED postVars

Next ==
    \/ ParseArgs
    \/ SelectBackend
    \/ LoadImage
    \/ Predict
    \/ Postprocess
    \/ Display

Spec == Init /\ [][Next]_vars

(* ------------------- postprocess on bounded inputs -------------------- *)

\* The values of an entry of a class activation map.
CamVals == {-1, 0, 1}

PredInputs == {[shape |-> <<1, N_CLASSES>>, v |-> v] : v \in [Classes -> 0 .. MaxVal]}

\* Class activation maps of one row and two columns: every choice of values
\* at position (0, 0); at position (0, 1) channel c holds 2^c, so that a sum
\* of channels there tells which channels were summed, and how often.
CamInputs ==
    {[shape |-> <<1, 1, 2, N_CLASSES>>,
      px    |-> (<<0, 0>> :> a) @@ (<<0, 1>> :> [c \in Classes |-> 2 ^ c])] :
        a \in [Classes -> CamVals]}

\* The arguments of the calls: preds, cams and top_k, with argsort_out the
\* value np.argsort has for this preds (any ascending order of it, the same
\* at every call).
InitPost ==
    /\ pc = "post_ready"
    /\ preds \in PredInputs
    /\ cams \in CamInputs
    /\ top_k \in -1 .. (N_CLASSES + 1)
    /\ argsort_out \in argsort(preds.v)
    /\ inputs = [preds |-> preds, cams |-> cams]
    /\ argv = <<>>
    /\ env = None
    /\ args = None
    /\ cam_builder = None
    /\ built = <<>>
    /\ imgs = None
    /\ original_img = None
    /\ original_size = <<>>
    /\ class_activation_map = None
    /\ shown = <<>>
    /\ error = ""
    /\ trace = <<>>
    /\ idxes = <<>>
    /\ k_used = 0
    /\ rets = <<>>

scriptVars == <<argv, args, env, cam_builder, built, imgs, original_img,
                original_size, shown, error, trace>>

\* The effect of one call postprocess(preds, cams, k) on the state.
PostCall(k) ==
    LET r == postprocess(preds, cams, k, argsort_out)
    IN  /\ class_activation_map' = r.ret
        /\ preds' = r.preds
        /\ cams' = r.cams
        /\ idxes' = r.idxes
        /\ rets' = Append(rets, r.ret)
        /\ k_used' = k
        /\ UNCHANGED scriptVars
        /\ UNCHANGED postVars

\* postprocess(preds, cams)
PostCallDefault ==
    /\ pc = "post_ready"
    /\ PostCall(DEFAULT_TOP_K)
    /\ pc' = "post_called"

\* postprocess(preds, cams, top_k)
PostCallTopK ==
    /\ pc = "post_ready"
    /\ PostCall(top_k)
    /\ pc' = "post_called"

\* The same call once more, on the same arrays.
PostCallAgain ==
    /\ pc = "post_called"
    /\ PostCall(k_used)
    /\ pc' = "post_done"

NextPost ==
    \/ PostCallDefault
    \/ PostCallTopK
    \/ PostCallAgain

SpecPost == InitPost /\ [][NextPost]_vars

(* ------------------------------ claims -------------------------------- *)

StageOrder == <<"parse", "select", "load", "predict", "postprocess", "display">>

\* C1: the stages of a run happen in the fixed order (parse,) select, load,
\* predict, postprocess, display: what has been executed is always a prefix
\* of that order, so no stage runs twice or before its predecessor; the
\* stage about to run is the next of the order; a run that reaches the end
\* has executed every stage, predict exactly once, and nothing can follow
\* display.
C1_StagesInOrder ==
    /\ Len(trace) <= Len(StageOrder)
    /\ trace = SubSeq(StageOrder, 1, Len(trace))
    /\ pc \notin {"done", "exit"} => pc = StageOrder[Len(trace) + 1]
    /\ pc = "done" <=> (trace = StageOrder /\ error = "")
    /\ pc = "done" =>
          /\ Cardinality({i \in DOMAIN trace : trace[i] = "predict"}) = 1
          /\ ~ENABLED Next

C1_Witness == pc = "done" /\ trace = StageOrder /\ shown # <<>>

Selected == Len(trace) >= 2

\* C2: once selection has run, 'resnet' has built exactly ResNet50, 'nasnet'
\* exactly NASNetLarge, 'inception' exactly InceptionResNetV2, and any other
\* string has raised ValueError; at most one backend is ever built, and in a
\* run that raised ValueError no model is built, no image loaded, nothing
\* predicted and nothing displayed.
C2_SelectionTotalExclusive ==
    /\ Len(built) <= 1
    /\ error = "ValueError" =>
          /\ pc = "exit"
          /\ cam_builder = None /\ built = <<>>
          /\ imgs = None /\ original_img = None
          /\ preds = None /\ cams = None
          /\ shown = <<>>
          /\ ~ENABLED Next
    /\ Selected =>
          LET b == args.base_network
              want == CASE b = "resnet" -> "ResNet50"
                        [] b = "nasnet" -> "NASNetLarge"
                        [] b = "inception" -> "InceptionResNetV2"
                        [] OTHER -> ""
          IN  IF want = ""
              THEN error = "ValueError"
              ELSE /\ error # "ValueError"
                   /\ built = <<want>>
                   /\ cam_builder # None
                   /\ cam_builder.cam_model.class = want

C2_Witness ==
    /\ error = "ValueError"
    /\ args.base_network = "vgg16"
    /\ pc = "exit"

\* C4: the class activation maps the CAM model produces are as high and as
\* wide as the backend's input (224, 299, 331), the last convolutional
\* feature map being 7x7, 8x8 and 11x11.
C4_CamSizeIsInputSize ==
    cams # None =>
        /\ Idx(cams.shape, 1) = cam_builder.input_size
        /\ Idx(cams.shape, 2) = cam_builder.input_size

\* C5: predict returns (class probabilities, class activation maps); the
\* layers of the pretrained network are in the CAM model as the pretrained
\* network has them, among the added layers only predictions_2 carries
\* weights, and the first output is the output of the pretrained network
\* alone on the same batch.
C5_BaseNetworkUntouched ==
    cam_builder # None =>
        LET m == cam_builder.cam_model
            base == PretrainedModel(m.class, m.input_shape, env.ckpt)
        IN  /\ \A n \in DOMAIN base.layers : m.layers[n] = base.layers[n]
            /\ \A n \in (DOMAIN m.layers) \ (DOMAIN base.layers) :
                  n # "predictions_2" => m.layers[n].weights = <<>>
            /\ preds # None =>
                  /\ preds = ModelPredict(base, env.feat)[1]
                  /\ preds.shape = <<1, N_CLASSES>>
                  /\ Len(cams.shape) = 4
                  /\ Idx(cams.shape, 0) = 1
                  /\ Idx(cams.shape, 3) = N_CLASSES

C5_Witness == pc = "postprocess" /\ preds # None /\ cams # None

\* C6: load_img returns a batch of one image of input_size x input_size,
\* the original image at its size H x W, and original_size = (W, H); the map
\* shown over the image has H rows and W columns.
C6_LoadAndOverlaySizes ==
    /\ imgs # None =>
          LET H == Idx(env.file.shape, 0)
              W == Idx(env.file.shape, 1)
              s == cam_builder.input_size
          IN  /\ imgs.shape = <<1, s, s, CHANNELS>>
              /\ original_img.shape = <<H, W, CHANNELS>>
              /\ original_size = <<W, H>>
    /\ shown # <<>> =>
          /\ shown[1].shape = env.file.shape
          /\ shown[2].shape = <<Idx(env.file.shape, 0), Idx(env.file.shape, 1)>>

C6_Witness ==
    /\ pc = "done"
    /\ shown # <<>>
    /\ Idx(env.file.shape, 0) # Idx(env.file.shape, 1)
    /\ cam_builder.input_size = 299

\* C7: the kernel K of predictions_2 has K[0,0,j,c] = W[j,c] for the kernel
\* W of the prediction layer, its bias is the prediction layer's bias b, and
\* the class activation map at position p, class c is
\* b[c] + sum_j W[j,c] * U[p,j], U the upsampled last feature map.
C7_HeadReproducesClassifier ==
    cam_builder # None =>
        LET m == cam_builder.cam_model
            K == m.layers["predictions_2"].weights[1]
            kb == m.layers["predictions_2"].weights[2]
            W == env.ckpt.kernel
            b == env.ckpt.bias
            U == Forward(m, m.layers["predictions_2"].inbound, env.feat)
        IN  /\ K.shape = <<1, 1, N_FEATURES, N_CLASSES>>
            /\ \A j \in Features, c \in Classes :
                  At(K, <<0, 0, j, c>>) = At(W, <<j, c>>)
            /\ kb = b
            /\ cams # None =>
                  \A p \in Pixels, c \in Classes :
                      cams.px[p][c] = At(b, <<c>>) + SumOver(Features,
                          [j \in Features |-> At(W, <<j, c>>) * U.px[p][j]])

C7_Witness ==
    /\ cams # None
    /\ \E p \in Pixels, j \in Features : env.feat[p][j] # 0
\* The classes whose channels the last call summed.
Summed == {idxes[i] : i \in DOMAIN idxes}

\* The elementwise sum of the channels S of the maps c.
ChannelSum(c, S) ==
    [p \in Pixels |-> SumOver(S, [i \in Classes |-> c.px[p][i]])]

\* C3: for 1 <= top_k <= N_CLASSES the value returned is the elementwise sum
\* of the channels of a set S of exactly top_k distinct classes, each at
\* least as probable as every class outside S; with the default top_k (1)
\* it is the channel of a most probable class.
C3_SumOfTopK ==
    (pc # "post_ready" /\ 1 <= k_used /\ k_used <= N_CLASSES) =>
        /\ Len(idxes) = k_used
        /\ Cardinality(Summed) = k_used
        /\ \A i \in Summed, j \in Classes \ Summed :
              inputs.preds.v[i] >= inputs.preds.v[j]
        /\ class_activation_map.px = ChannelSum(inputs.cams, Summed)
        /\ class_activation_map.shape = SubSeq(inputs.cams.shape, 2, 3)
        /\ k_used = DEFAULT_TOP_K =>
              \E m \in Classes :
                  /\ \A j \in Classes : inputs.preds.v[m] >= inputs.preds.v[j]
                  /\ class_activation_map.px = ChannelSum(inputs.cams, {m})

\* A call with top_k = 2 where a class left out is as probable as one summed.
C3_Witness ==
    /\ pc = "post_called"
    /\ k_used = 2
    /\ \E i \in Summed, j \in Classes \ Summed :
          inputs.preds.v[i] = inputs.preds.v[j]
    /\ \E p \in Pixels : class_activation_map.px[p] # 0

\* C8: for 0 <= top_k <= N_CLASSES exactly top_k channels are summed, and
\* top_k = 0 returns the all-zero map.
C8_SumsExactlyTopK ==
    (pc # "post_ready" /\ 0 <= k_used /\ k_used <= N_CLASSES) =>
        /\ Len(idxes) = k_used
        /\ k_used = 0 => class_activation_map.px = ZeroMap

\* C9: a call leaves preds and cams with the values they had before it, and
\* a second call on the same arguments returns what the first returned.
C9_ArgumentsUnchanged ==
    /\ pc \in {"post_ready", "post_called", "post_done"} =>
          /\ preds = inputs.preds
          /\ cams = inputs.cams
    /\ Len(rets) = 2 => rets[1] = rets[2]

C9_Witness ==
    /\ pc = "post_done"
    /\ Len(rets) = 2
    /\ 0 \in Summed
    /\ \E p \in Pixels : rets[2].px[p] # 0

\* C10: a run whose base_network is the declared default selects the
\* ResNet50 backend and raises no ValueError.
C10_DefaultAccepted ==
    (Selected /\ args.base_network = DEFAULT_BASE_NETWORK) =>
        /\ error # "ValueError"
        /\ cam_builder # None
        /\ cam_builder.cam_model.class = "ResNet50"

====
